---- MODULE Spec2Model ----
(***************************************************************************)
(* Model of parse_gost54084.py: the OCR-tolerant reconstruction of the     *)
(* GOST R 54084-2010 tables.                                               *)
(*                                                                         *)
(* Text is a sequence of one-character strings.  A float is an integer     *)
(* counted in units of 10^-FracDigits (Unit of them make 1.0).  Python's   *)
(* None is the empty tuple; a present slot of a row is the one-element     *)
(* tuple holding the float.                                                *)
(***************************************************************************)
EXTENDS Integers, Sequences, FiniteSets, TLC

VARIABLES
    line, accepted, extracted,                \* one text line and what the classifier / extractor return
    values, expected_count, merged, remerged, \* one value row and what decimal recovery returns
    page, expected_cols, data_rows, seasons_data, \* one page file, the rows parse_data_page extracts and what it returns
    pc, page_num, all_data, warnings_count,   \* build_data_module: its place, loop variable and results
    disk                                      \* the page files build_data_module has read, by page number

vars == <<line, accepted, extracted, values, expected_count, merged, remerged,
          page, expected_cols, data_rows, seasons_data,
          pc, page_num, all_data, warnings_count, disk>>

lineVars  == <<line, accepted, extracted>>
mergeVars == <<values, expected_count, merged, remerged>>
pageVars  == <<page, expected_cols, data_rows, seasons_data>>
buildVars == <<pc, page_num, all_data, warnings_count, disk>>

\* ------------------------------------------------------------------ bounds
MaxChunks   == 4   \* a line is built from at most this many chunks
MaxDigitRun == 5   \* longest run of digits in a line
FracDigits  == 1   \* digits kept after a decimal point
MaxValues   == 4   \* longest value row given to decimal recovery
MaxRuns     == 6   \* a page holds at most this many runs of rows
MaxOddRuns  == 1   \* at most this many runs of a page are defective
MaxCols     == 2   \* most locations of a page parsed on its own
LastPage    == 21  \* the batch is cut off after this page
MaxOddPages == 1   \* at most this many page files of a batch are not intact

\* ------------------------------------------------------- general helpers
None == <<>>
Some(v) == <<v>>

RECURSIVE Pow10(_)
Pow10(n) == IF n = 0 THEN 1 ELSE 10 * Pow10(n - 1)

Unit == Pow10(FracDigits)

Abs(x) == IF x < 0 THEN -x ELSE x

Min(a, b) == IF a < b THEN a ELSE b

Range(s) == {s[i] : i \in 1..Len(s)}

\* ------------------------------------------------------ module constants
HEIGHTS == <<10, 100, 300, 600, 1000, 1500, 2000, 2500, 3000>>

HEIGHT_FIXES == (1200 :> 1000) @@ (5000 :> 3000)

SEASONS == <<"winter", "spring", "summer", "autumn", "annual">>

ALL_VALID_HEIGHTS == Range(HEIGHTS) \cup DOMAIN HEIGHT_FIXES

PARAMETERS ==
    <<"temperature", "pressure", "density", "scalar_wind_speed", "zonal_wind_speed",
      "meridional_wind_speed", "resultant_wind", "specific_humidity",
      "relative_humidity_dewpoint">>

\* the grids of a layout that gives every longitude group the same locations
LOCATION_GRIDS_one_band ==
    [g \in 1..12 |->
        <<<<55, 20>>, <<45, 30>>, <<50, 30>>, <<55, 30>>, <<60, 30>>, <<65, 30>>, <<70, 30>>>>]

\* LOCATION_GRIDS[g + 1] is the grid of longitude table index g
LOCATION_GRIDS ==
    << <<<<55, 20>>, <<45, 30>>, <<50, 30>>, <<55, 30>>, <<60, 30>>, <<65, 30>>, <<70, 30>>>>,
       <<<<45, 40>>, <<50, 40>>, <<55, 40>>, <<60, 40>>, <<65, 40>>, <<70, 40>>>>,
       <<<<40, 50>>, <<45, 50>>, <<50, 50>>, <<55, 50>>, <<60, 50>>, <<65, 50>>, <<70, 50>>>>,
       <<<<40, 60>>, <<45, 60>>, <<50, 60>>, <<55, 60>>, <<60, 60>>, <<65, 60>>, <<70, 60>>>>,
       <<<<40, 70>>, <<45, 70>>, <<50, 70>>, <<55, 70>>, <<60, 70>>, <<65, 70>>, <<70, 70>>>>,
       <<<<45, 80>>, <<50, 80>>, <<55, 80>>, <<60, 80>>, <<65, 80>>, <<70, 80>>, <<75, 80>>>>,
       <<<<50, 90>>, <<55, 90>>, <<60, 90>>, <<65, 90>>, <<70, 90>>, <<75, 90>>>>,
       <<<<50, 105>>, <<55, 105>>, <<60, 105>>, <<65, 105>>, <<70, 105>>, <<75, 105>>>>,
       <<<<50, 120>>, <<55, 120>>, <<60, 120>>, <<65, 120>>, <<70, 120>>>>,
       <<<<45, 135>>, <<50, 135>>, <<55, 135>>, <<60, 135>>, <<65, 135>>, <<70, 135>>>>,
       <<<<50, 155>>, <<55, 155>>, <<60, 155>>, <<65, 155>>, <<70, 155>>>>,
       <<<<60, 175>>, <<65, 175>>, <<70, 175>>, <<65, -170>>>> >>

\* the column counts a page is parsed with
PageCols == (1..MaxCols) \cup {Len(LOCATION_GRIDS[g]) : g \in 1..Len(LOCATION_GRIDS)}

\* ---------------------------------------------------------- text helpers
Digits == {"0", "1", "2", "3", "4", "5", "6", "7", "8", "9"}

DigitVal(c) ==
    CASE c = "0" -> 0 [] c = "1" -> 1 [] c = "2" -> 2 [] c = "3" -> 3
      [] c = "4" -> 4 [] c = "5" -> 5 [] c = "6" -> 6 [] c = "7" -> 7
      [] c = "8" -> 8 [] c = "9" -> 9

Whitespace == {" ", "\t"}

NumericChars == Digits \cup {".", "-", "+", " "}

RECURSIVE lstrip(_)
lstrip(s) == IF s # <<>> /\ Head(s) \in Whitespace THEN lstrip(Tail(s)) ELSE s

RECURSIVE rstrip(_)
rstrip(s) ==
    IF s # <<>> /\ s[Len(s)] \in Whitespace THEN rstrip(SubSeq(s, 1, Len(s) - 1)) ELSE s

\* str.strip()
strip(s) == rstrip(lstrip(s))

\* first index >= i of s that does not hold a digit (the end of \d* at i)
RECURSIVE DigitRunEnd(_, _)
DigitRunEnd(s, i) ==
    IF i <= Len(s) /\ s[i] \in Digits THEN DigitRunEnd(s, i + 1) ELSE i

\* int() of a digit string
RECURSIVE int(_)
int(ds) ==
    IF ds = <<>> THEN 0
    ELSE 10 * int(SubSeq(ds, 1, Len(ds) - 1)) + DigitVal(ds[Len(ds)])

\* float() of a token matched by -?\d+\.?\d*
float(tok) ==
    LET neg  == Head(tok) = "-"
        body == IF neg THEN Tail(tok) ELSE tok
        e    == DigitRunEnd(body, 1)
        ip   == SubSeq(body, 1, e - 1)
        fp   == SubSeq(body, e + 1, Len(body))
        mag  == int(ip) * Unit + int(fp) * Pow10(FracDigits - Len(fp))
    IN  IF neg THEN -mag ELSE mag

\* int() of a float: truncation toward zero
trunc(v) == IF v < 0 THEN -((-v) \div Unit) ELSE v \div Unit

\* v == int(v)
IsWhole(v) == v % Unit = 0

\* ----------------------------------------------------------- is_data_line
\* the count with the space left out of the numeric characters
CountNumericNoSpace(s) == Cardinality({i \in 1..Len(s) : s[i] \in NumericChars \ {" "}})

CountNumeric(s) == Cardinality({i \in 1..Len(s) : s[i] \in NumericChars})

is_data_line(l) ==
    LET stripped      == strip(l)
        numeric_chars == CountNumeric(stripped)
        total_chars   == Len(stripped)
        e             == DigitRunEnd(stripped, 1)
    IN  IF stripped = <<>> THEN FALSE
        ELSE IF total_chars = 0 \/ numeric_chars * 100 < 85 * total_chars THEN FALSE
        ELSE IF e = 1 THEN FALSE
        ELSE int(SubSeq(stripped, 1, e - 1)) \in ALL_VALID_HEIGHTS

\* ------------------------------------------------------------- fix_height
fix_height(h) == IF h \in DOMAIN HEIGHT_FIXES THEN HEIGHT_FIXES[h] ELSE h

\* ---------------------------------------------------- extract_data_values
\* re.sub(r'(\d),(\d)', r'\1.\2', s): leftmost, non-overlapping
RECURSIVE CommaToPeriod(_, _)
CommaToPeriod(s, i) ==
    IF i > Len(s) THEN <<>>
    ELSE IF i + 2 <= Len(s) /\ s[i] \in Digits /\ s[i + 1] = "," /\ s[i + 2] \in Digits
         THEN <<s[i], ".", s[i + 2]>> \o CommaToPeriod(s, i + 3)
         ELSE <<s[i]>> \o CommaToPeriod(s, i + 1)

\* end (exclusive) of the match of -?\d+\.?\d* at i, or 0 when there is none
MatchEnd(s, i) ==
    LET d == IF s[i] = "-" THEN i + 1 ELSE i
        e == DigitRunEnd(s, d)
        f == IF e <= Len(s) /\ s[e] = "." THEN e + 1 ELSE e
    IN  IF e = d THEN 0 ELSE DigitRunEnd(s, f)

\* re.findall(r'-?\d+\.?\d*', s) from index i on
RECURSIVE findall(_, _)
findall(s, i) ==
    IF i > Len(s) THEN <<>>
    ELSE LET e == MatchEnd(s, i)
         IN  IF e = 0 THEN findall(s, i + 1)
             ELSE <<SubSeq(s, i, e - 1)>> \o findall(s, e)

\* the extraction that returns the height as it was read
extract_raw_height(l) ==
    LET stripped == CommaToPeriod(strip(l), 1)
        numbers  == findall(stripped, 1)
    IN  IF Len(numbers) < 3 THEN None
        ELSE <<trunc(float(numbers[1])),
               [k \in 1..(Len(numbers) - 1) |-> float(numbers[k + 1])]>>

extract_data_values(l) ==
    LET stripped == CommaToPeriod(strip(l), 1)
        numbers  == findall(stripped, 1)
    IN  IF Len(numbers) < 3 THEN None
        ELSE <<fix_height(trunc(float(numbers[1]))),
               [k \in 1..(Len(numbers) - 1) |-> float(numbers[k + 1])]>>

\* ------------------------------------------------ the lines that are read
Chunks ==
    { <<"1", "0">>, <<"1", "2", "0", "0">>, <<"5", "0", "0", "0">>, <<"7">>,
      <<" ", "7">>, <<" ">>, <<".">>, <<"-">>, <<",">>, <<"x">> }

RECURSIVE Concat(_)
Concat(ss) == IF ss = <<>> THEN <<>> ELSE Head(ss) \o Concat(Tail(ss))

\* every digit run is short enough for the fixed-point floats
WithinWidth(s) ==
    \A i \in 1..Len(s) :
        /\ (s[i] \in Digits /\ (i = 1 \/ s[i - 1] \notin Digits))
              => DigitRunEnd(s, i) - i <= MaxDigitRun
        /\ s[i] = "." => DigitRunEnd(s, i + 1) - (i + 1) <= FracDigits

Lines ==
    {l \in {Concat(cs) : cs \in UNION {[1..n -> Chunks] : n \in 0..MaxChunks}} :
        WithinWidth(CommaToPeriod(l, 1))}

\* build_data_module has not been called
BuildIdle ==
    /\ pc = "idle" /\ page_num = 0 /\ all_data = <<>> /\ warnings_count = 0 /\ disk = <<>>

\* --------------------------------------------------------------- SpecLine
InitLine ==
    /\ line \in Lines
    /\ accepted = None
    /\ extracted = None
    /\ values = <<>> /\ expected_count = 0 /\ merged = None /\ remerged = None
    /\ page = None /\ expected_cols = 0 /\ data_rows = <<>> /\ seasons_data = None
    /\ BuildIdle

Classify ==
    /\ accepted = None
    /\ accepted' = Some(is_data_line(line))
    /\ UNCHANGED <<line, extracted, mergeVars, pageVars, buildVars>>

Extract ==
    /\ extracted = None
    /\ extracted' = Some(extract_data_values(line))
    /\ UNCHANGED <<line, accepted, mergeVars, pageVars, buildVars>>

NextLine == Classify \/ Extract

SpecLine == InitLine /\ [][NextLine]_vars

C7_Extract ==
    extracted # None =>
        LET toks  == findall(CommaToPeriod(strip(line), 1), 1)
            r     == extracted[1]
            first == float(toks[1])
            whole == IF first < 0 THEN -((-first - ((-first) % Unit)) \div Unit)
                     ELSE (first - (first % Unit)) \div Unit
            level == CASE whole = 1200 -> 1000 [] whole = 5000 -> 3000 [] OTHER -> whole
        IN  IF Len(toks) < 3 THEN r = None
            ELSE /\ r # None
                 /\ r[1] = level
                 /\ Len(r[2]) = Len(toks) - 1
                 /\ \A k \in 1..(Len(toks) - 1) : r[2][k] = float(toks[k + 1])

\* a row read with height 1200 comes out as level 1000 with its two values
C7_Witness ==
    /\ extracted # None /\ extracted[1] # None
    /\ SubSeq(strip(line), 1, 5) = <<"1", "2", "0", "0", " ">>
    /\ extracted[1][1] = 1000
    /\ Len(extracted[1][2]) = 2

\* --------------------------------------------- try_merge_split_decimals
\* the while loop of try_merge_split_decimals from index i on
RECURSIVE merge_loop(_, _, _, _)
merge_loop(vs, excess, i, merges_done) ==
    IF i > Len(vs) THEN <<>>
    ELSE IF /\ merges_done < excess
            /\ i + 1 <= Len(vs)
            /\ IsWhole(vs[i])
            /\ Abs(vs[i]) >= Unit
            /\ IsWhole(vs[i + 1])
            /\ 0 <= vs[i + 1] /\ vs[i + 1] <= 9 * Unit
         THEN LET sign == IF vs[i] >= 0 THEN 1 ELSE -1
              IN  <<vs[i] + sign * (vs[i + 1] \div 10)>>
                      \o merge_loop(vs, excess, i + 2, merges_done + 1)
         ELSE <<vs[i]>> \o merge_loop(vs, excess, i + 1, merges_done)

\* the repair without its length guard and without its merge budget
try_merge_every_pair(vs, expected) == merge_loop(vs, Len(vs), 1, 0)

\* the repair with a budget of one merge too many
try_merge_one_more(vs, expected) ==
    IF Len(vs) <= expected THEN vs
    ELSE merge_loop(vs, Len(vs) - expected + 1, 1, 0)

try_merge_split_decimals(vs, expected) ==
    IF Len(vs) <= expected THEN vs
    ELSE merge_loop(vs, Len(vs) - expected, 1, 0)

\* ------------------------------------------- the rows that are repaired
ValuePool == {261 * Unit, 7 * Unit, 0, -3 * Unit, 12 * Unit, Unit \div 2}

ValueRows == UNION {[1..n -> ValuePool] : n \in 0..MaxValues}

\* -------------------------------------------------------------- SpecMerge
InitMerge ==
    /\ values \in ValueRows
    /\ expected_count \in 0..MaxValues
    /\ merged = None /\ remerged = None
    /\ line = <<>> /\ accepted = None /\ extracted = None
    /\ page = None /\ expected_cols = 0 /\ data_rows = <<>> /\ seasons_data = None
    /\ BuildIdle

Merge ==
    /\ merged = None
    /\ merged' = Some(try_merge_split_decimals(values, expected_count))
    /\ UNCHANGED <<values, expected_count, remerged, lineVars, pageVars, buildVars>>

MergeAgain ==
    /\ merged # None /\ remerged = None
    /\ remerged' = Some(try_merge_split_decimals(merged[1], expected_count))
    /\ UNCHANGED <<values, expected_count, merged, lineVars, pageVars, buildVars>>

NextMerge == Merge \/ MergeAgain

SpecMerge == InitMerge /\ [][NextMerge]_vars

\* C8: on a row longer than expected_count, try_merge_split_decimals merges,
\* scanning left to right, the leftmost pairs (a, b) with a whole, |a| >= 1,
\* b whole and 0 <= b <= 9 into a + sign(a)*b/10, at most excess times and
\* never reusing a merged value; everything else is kept in order, so the
\* result is between expected_count and the input length long.
C8_GreedyMerge ==
    (merged # None /\ Len(values) > expected_count) =>
        LET n         == Len(values)
            excess    == n - expected_count
            out       == merged[1]
            Shape(i)  == /\ i + 1 <= n
                         /\ values[i] % Unit = 0 /\ Abs(values[i]) >= Unit
                         /\ values[i + 1] % Unit = 0
                         /\ values[i + 1] >= 0 /\ values[i + 1] <= 9 * Unit
            Greedy(M) == \A i \in 1..n :
                            i \in M <=> /\ Shape(i)
                                        /\ (i - 1) \notin M
                                        /\ Cardinality({j \in M : j < i}) < excess
            Kept(M)   == {i \in 1..n : (i - 1) \notin M}
            Nth(M, k) == CHOOSE i \in Kept(M) : Cardinality({j \in Kept(M) : j <= i}) = k
            Joined(i) == IF values[i] > 0 THEN values[i] + values[i + 1] \div 10
                         ELSE values[i] - values[i + 1] \div 10
        IN  \E M \in SUBSET (1..n) :
                /\ Greedy(M)
                /\ Cardinality(M) <= excess
                /\ Len(out) = n - Cardinality(M)
                /\ Len(out) >= expected_count /\ Len(out) <= n
                /\ \A k \in 1..Len(out) :
                       out[k] = IF Nth(M, k) \in M THEN Joined(Nth(M, k))
                                ELSE values[Nth(M, k)]

\* the values 261, 7, 0.5 with one value too many become 261.7, 0.5
C8_Witness ==
    /\ values = <<261 * Unit, 7 * Unit, Unit \div 2>>
    /\ expected_count = 2
    /\ merged = Some(<<261 * Unit + 7 * (Unit \div 10), Unit \div 2>>)

\* C9: a row no longer than expected_count comes back from
\* try_merge_split_decimals unchanged, whatever its values; a second repair
\* of a row the first one brought down to expected_count changes nothing.
C9_NoOp ==
    /\ (merged # None /\ Len(values) <= expected_count) => merged[1] = values
    /\ (remerged # None /\ Len(merged[1]) <= expected_count) => remerged[1] = merged[1]

\* a repaired row that still holds a whole number before a digit is left alone
C9_Witness ==
    /\ values = <<261 * Unit, 7 * Unit, 261 * Unit, 7 * Unit>>
    /\ expected_count = 3
    /\ remerged # None
    /\ remerged[1] = <<261 * Unit + 7 * (Unit \div 10), 261 * Unit, 7 * Unit>>

\* -------------------------------------------------------- parse_data_page
Arrow == "->"   \* the character U+2192 that ends a line-number prefix

\* re.sub(r'^\s*\d+<arrow>', '', s)
strip_line_prefix(s) ==
    LET a == Len(s) - Len(lstrip(s)) + 1
        e == DigitRunEnd(s, a)
    IN  IF e > a /\ e <= Len(s) /\ s[e] = Arrow THEN SubSeq(s, e + 1, Len(s)) ELSE s

\* one pass of the loop over raw_lines: the rows (none or one) a line adds
rows_of_line(raw_line) ==
    LET l == strip_line_prefix(strip(raw_line))
    IN  IF ~is_data_line(l) THEN <<>>
        ELSE LET result == extract_data_values(l)
             IN  IF result = None THEN <<>>
                 ELSE IF result[1] \in Range(HEIGHTS)
                      THEN <<[height |-> result[1], values |-> result[2]]>>
                      ELSE <<>>

\* ------------------------------------------------ the pages that are read
RECURSIVE str(_)
str(n) ==
    LET d == <<"0", "1", "2", "3", "4", "5", "6", "7", "8", "9">>[(n % 10) + 1]
    IN  IF n < 10 THEN <<d>> ELSE str(n \div 10) \o <<d>>

\* the text of value c of line i of run r
ValueText(r, i, c) == <<" ">> \o str(r) \o str(i % 10) \o str(c)

RECURSIVE ValueTexts(_, _, _, _)
ValueTexts(r, i, from, to) ==
    IF from > to THEN <<>> ELSE ValueText(r, i, from) \o ValueTexts(r, i, from + 1, to)

HeightText(lab) ==
    CASE lab \in 1..9 -> str(HEIGHTS[lab])
      [] lab = 10     -> <<"1", "2", "0", "0">>
      [] lab = 11     -> <<"5", "0", "0", "0">>

\* the text of line i of run r: height label lab, values of the given shape
\* for a table of cols locations
LineText(r, i, lab, shape, cols) ==
    LET n == 2 * cols
        h == HeightText(lab)
    IN  CASE shape = "exact"  -> h \o ValueTexts(r, i, 1, n)
          [] shape = "short"  -> h \o ValueTexts(r, i, 1, n - 1)
          [] shape = "merge"  -> h \o ValueText(r, i, 1) \o <<" ", "7">> \o ValueTexts(r, i, 2, n)
          [] shape = "cut"    -> h \o ValueTexts(r, i, 1, n + 1)
          [] shape = "both"   -> h \o ValueText(r, i, 1) \o <<" ", "7">> \o ValueTexts(r, i, 2, n + 2)
          [] shape = "comma"  -> h \o ValueText(r, i, 1) \o <<",", "5">> \o ValueTexts(r, i, 2, n)
          [] shape = "bad"    -> h \o ValueText(r, i, 1)
          [] shape = "prefix" -> <<" ", "3", Arrow>> \o h \o ValueTexts(r, i, 1, n) \o <<" ">>
          [] shape = "text"   -> <<"x", "x", " ">> \o h
          [] shape = "count"  -> <<"7">> \o ValueTexts(r, i, 1, n)

Exact(labs) == [k \in 1..Len(labs) |-> <<labs[k], "exact">>]

\* a run is the lines of one season as the scan left them
RunLines(kind) ==
    CASE kind = "full"      -> Exact(<<1, 2, 3, 4, 5, 6, 7, 8, 9>>)
      [] kind = "headless"  -> Exact(<<2, 3, 4, 5, 6, 7, 8, 9>>)
      [] kind = "misread"   -> Exact(<<2, 2, 3, 4, 5, 6, 7, 8, 9>>)
      [] kind = "cut"       -> Exact(<<1, 2, 3, 4, 5, 6, 7>>)
      [] kind = "gap"       -> Exact(<<1, 3, 4, 5, 6, 7, 8, 9>>)
      [] kind = "repeat"    -> Exact(<<1, 2, 2, 3, 4, 5, 6, 7, 8, 9>>)
      [] kind = "stub"      -> <<<<1, "text">>, <<1, "bad">>, <<1, "count">>, <<1, "prefix">>>>
      [] kind = "noisy"     -> <<<<1, "text">>, <<1, "prefix">>, <<2, "comma">>, <<3, "exact">>,
                                 <<4, "exact">>, <<10, "exact">>, <<6, "exact">>,
                                 <<1, "count">>, <<7, "exact">>, <<8, "exact">>,
                                 <<11, "exact">>>>
      [] kind = "ragged"    -> <<<<1, "cut">>, <<2, "short">>, <<3, "merge">>, <<4, "both">>,
                                 <<10, "exact">>, <<6, "comma">>, <<7, "exact">>,
                                 <<8, "exact">>, <<11, "exact">>>>

OddRuns == {"headless", "misread", "cut", "gap", "repeat", "stub", "noisy", "ragged"}

RunKinds == OddRuns \cup {"full"}

\* the run sequences of a page: up to MaxRuns runs, up to MaxOddRuns of them odd
RunSeqs ==
    UNION {UNION {{[i \in 1..n |-> IF i \in P THEN f[i] ELSE "full"] : f \in [P -> OddRuns]} :
                     P \in {Q \in SUBSET (1..n) : Cardinality(Q) <= MaxOddRuns}} :
              n \in 0..MaxRuns}

\* the page that lost every boundary row
UnmarkedPage == [i \in 1..MaxRuns |-> "headless"]

\* the page with more than five boundary rows and fewer than 45 rows
CrowdedPage == [i \in 1..MaxRuns |-> IF i < 5 THEN "stub" ELSE "cut"]

\* the text of the run of the given kind at place r of its page
RunText ==
    [kind \in RunKinds, r \in 1..MaxRuns, cols \in PageCols |->
        [i \in 1..Len(RunLines(kind)) |->
            LineText(r, i, RunLines(kind)[i][1], RunLines(kind)[i][2], cols)]]

RECURSIVE PageText(_, _, _)
PageText(rs, r, cols) ==
    IF r > Len(rs) THEN <<>> ELSE RunText[rs[r], r, cols] \o PageText(rs, r + 1, cols)

\* every line text a page can hold, and the rows it adds (rows_of_line,
\* evaluated once per text)
LineTexts ==
    UNION {Range(RunText[kind, r, cols]) :
              kind \in RunKinds, r \in 1..MaxRuns, cols \in PageCols}

RowsOfLine == [t \in LineTexts |-> rows_of_line(t)]

\* the lines the loop passes over at `if result is None: continue`
MalformedLine ==
    [t \in LineTexts |->
        LET l == strip_line_prefix(strip(t))
        IN  is_data_line(l) /\ extract_data_values(l) = None]

\* the loop over raw_lines
RECURSIVE extract_rows(_)
extract_rows(raw_lines) ==
    IF raw_lines = <<>> THEN <<>>
    ELSE RowsOfLine[Head(raw_lines)] \o extract_rows(Tail(raw_lines))

\* [i for i, (h, _) in enumerate(data_rows) if h == 10], as 1-based positions
RECURSIVE boundaries(_, _)
boundaries(rows, i) ==
    IF i > Len(rows) THEN <<>>
    ELSE IF rows[i].height = 10 THEN <<i>> \o boundaries(rows, i + 1)
         ELSE boundaries(rows, i + 1)

\* the starts when the fixed partition is never taken
season_starts_no_fallback(rows) == boundaries(rows, 1)

\* the starts when the fixed partition needs more than 45 rows
season_starts_strict(rows) ==
    LET found == boundaries(rows, 1)
    IN  IF Len(found) # 5 /\ Len(rows) > 45
        THEN [i \in 1..5 |-> (i - 1) * 9 + 1]
        ELSE found

\* the starts the segmentation loop runs over (1-based positions)
season_starts(rows) ==
    LET found == boundaries(rows, 1)
    IN  IF Len(found) # 5 /\ Len(rows) >= 45
        THEN [i \in 1..5 |-> (i - 1) * 9 + 1]
        ELSE found

\* the reconciliation that cuts a long row at its front
fix_row_keep_tail(vs, expected_values_per_row) ==
    LET repaired == IF Len(vs) > expected_values_per_row
                    THEN try_merge_split_decimals(vs, expected_values_per_row)
                    ELSE vs
        drop     == Len(repaired) - expected_values_per_row
    IN  IF Len(repaired) < expected_values_per_row
        THEN [k \in 1..expected_values_per_row |->
                 IF k <= Len(repaired) THEN Some(repaired[k]) ELSE None]
        ELSE [k \in 1..expected_values_per_row |-> Some(repaired[k + drop])]

\* the value-count reconciliation of one row
fix_row(vs, expected_values_per_row) ==
    LET repaired == IF Len(vs) > expected_values_per_row
                    THEN try_merge_split_decimals(vs, expected_values_per_row)
                    ELSE vs
    IN  IF Len(repaired) < expected_values_per_row
        THEN [k \in 1..expected_values_per_row |->
                 IF k <= Len(repaired) THEN Some(repaired[k]) ELSE None]
        ELSE [k \in 1..expected_values_per_row |-> Some(repaired[k])]

\* [None] * expected_values_per_row
absent_row(expected_values_per_row) == [k \in 1..expected_values_per_row |-> None]

\* the block without its absent rows
season_block_unpadded(rows, starts, season_idx, expected_values_per_row) ==
    LET start_row == starts[season_idx]
        end_row   == IF season_idx + 1 <= Len(starts)
                     THEN starts[season_idx + 1]
                     ELSE Min(start_row + 9, Len(rows) + 1)
        last      == Min(end_row, start_row + 9) - 1
    IN  [k \in 1..(last - start_row + 1) |->
            fix_row(rows[start_row + k - 1].values, expected_values_per_row)]

\* the block that runs on for nine rows past its start, whatever follows
season_block_run_on(rows, starts, season_idx, expected_values_per_row) ==
    LET start_row == starts[season_idx]
        last      == Min(start_row + 9, Len(rows) + 1) - 1
        taken     == [k \in 1..(last - start_row + 1) |->
                         fix_row(rows[start_row + k - 1].values, expected_values_per_row)]
    IN  [k \in 1..9 |-> IF k <= Len(taken) THEN taken[k]
                        ELSE absent_row(expected_values_per_row)]

\* the block that leaves out the boundary row it starts at
season_block_skip_boundary(rows, starts, season_idx, expected_values_per_row) ==
    LET start_row == starts[season_idx] + 1
        end_row   == IF season_idx + 1 <= Len(starts)
                     THEN starts[season_idx + 1]
                     ELSE Min(start_row + 9, Len(rows) + 1)
        last      == Min(end_row, start_row + 9) - 1
        taken     == [k \in 1..(last - start_row + 1) |->
                         fix_row(rows[start_row + k - 1].values, expected_values_per_row)]
    IN  [k \in 1..9 |-> IF k <= Len(taken) THEN taken[k]
                        ELSE absent_row(expected_values_per_row)]

\* the block of the season whose start is starts[season_idx]
season_block(rows, starts, season_idx, expected_values_per_row) ==
    LET start_row == starts[season_idx]
        end_row   == IF season_idx + 1 <= Len(starts)
                     THEN starts[season_idx + 1]
                     ELSE Min(start_row + 9, Len(rows) + 1)
        last      == Min(end_row, start_row + 9) - 1
        taken     == [k \in 1..(last - start_row + 1) |->
                         fix_row(rows[start_row + k - 1].values, expected_values_per_row)]
    IN  [k \in 1..9 |-> IF k <= Len(taken) THEN taken[k]
                        ELSE absent_row(expected_values_per_row)]

\* the parse that looks at no boundary row past the fifth
parse_data_page_first_five(file, cols) ==
    IF file = None THEN None
    ELSE LET rows   == extract_rows(file[1])
             found  == boundaries(rows, 1)
             all    == season_starts(rows)
             starts == SubSeq(all, 1, Min(5, Len(all)))
         IN  IF Len(found) # 5 /\ Len(rows) < 45 /\ found = <<>> THEN None
             ELSE [name \in {SEASONS[i] : i \in 1..Min(5, Len(starts))} |->
                      LET idx == CHOOSE i \in 1..5 : SEASONS[i] = name
                      IN  season_block(rows, starts, idx, cols * 2)]

\* the parse that gives up on every page of fewer than 45 rows whose
\* boundary count is not five
parse_data_page_no_salvage(file, cols) ==
    IF file = None THEN None
    ELSE LET rows   == extract_rows(file[1])
             found  == boundaries(rows, 1)
             starts == season_starts(rows)
         IN  IF Len(found) # 5 /\ Len(rows) < 45 THEN None
             ELSE [name \in {SEASONS[i] : i \in 1..Min(5, Len(starts))} |->
                      LET idx == CHOOSE i \in 1..5 : SEASONS[i] = name
                      IN  season_block(rows, starts, idx, cols * 2)]

\* the value returned for a page file: None, or the dict of seasonal blocks
parse_data_page(file, cols) ==
    IF file = None THEN None
    ELSE LET rows   == extract_rows(file[1])
             found  == boundaries(rows, 1)
             starts == season_starts(rows)
         IN  IF Len(found) # 5 /\ Len(rows) < 45 /\ found = <<>> THEN None
             ELSE [name \in {SEASONS[i] : i \in 1..Min(5, Len(starts))} |->
                      LET idx == CHOOSE i \in 1..5 : SEASONS[i] = name
                      IN  season_block(rows, starts, idx, cols * 2)]

\* --------------------------------------------------------------- SpecPage
InitPage ==
    /\ expected_cols \in 1..MaxCols
    /\ page \in {None} \cup {Some(PageText(rs, 1, expected_cols)) :
                               rs \in RunSeqs \cup {UnmarkedPage, CrowdedPage}}
    /\ data_rows = <<>>
    /\ seasons_data = None
    /\ line = <<>> /\ accepted = None /\ extracted = None
    /\ values = <<>> /\ expected_count = 0 /\ merged = None /\ remerged = None
    /\ BuildIdle

ParsePage ==
    /\ seasons_data = None
    /\ data_rows' = IF page = None THEN <<>> ELSE extract_rows(page[1])
    /\ seasons_data' = Some(parse_data_page(page, expected_cols))
    /\ UNCHANGED <<page, expected_cols, lineVars, mergeVars, buildVars>>

NextPage == ParsePage

SpecPage == InitPage /\ [][NextPage]_vars

\* C2 as claimed: in every seasonal block the entry at position k is a
\* fully-absent row or was taken from a data row of height HEIGHTS[k].
C2_HeightAligned ==
    (seasons_data # None /\ seasons_data[1] # None) =>
        LET rows  == data_rows
            N     == 2 * expected_cols
            res   == seasons_data[1]
            fixed == [i \in 1..Len(rows) |-> fix_row(rows[i].values, N)]
        IN  \A name \in DOMAIN res : \A k \in 1..9 :
                \/ res[name][k] = [j \in 1..N |-> None]
                \/ \E i \in 1..Len(rows) :
                       /\ rows[i].height = HEIGHTS[k]
                       /\ res[name][k] = fixed[i]

\* What parse_data_page does for C2: every seasonal block is n >= 1 consecutive
\* data rows of the page, in page order, followed by 9 - n fully-absent rows;
\* the heights of the rows decide nothing but where a block starts, so that
\* position k holds a row of height HEIGHTS[k] only when those n rows run
\* through the height levels from 10 upwards without a gap or a repeat.
C2_Positional ==
    (seasons_data # None /\ seasons_data[1] # None) =>
        LET rows  == data_rows
            N     == 2 * expected_cols
            res   == seasons_data[1]
            fixed == [i \in 1..Len(rows) |-> fix_row(rows[i].values, N)]
        IN  \A name \in DOMAIN res :
                \E start \in 1..Len(rows) :
                    /\ res[name][1] = fixed[start]
                    /\ \E n \in 1..9 :
                        /\ start + n - 1 <= Len(rows)
                        /\ \A k \in 1..n : res[name][k] = fixed[start + k - 1]
                        /\ \A k \in (n + 1)..9 : res[name][k] = [j \in 1..N |-> None]
                        /\ (\A k \in 1..n : rows[start + k - 1].height = HEIGHTS[k]) =>
                               \A k \in 1..n : \E i \in 1..Len(rows) :
                                   /\ rows[i].height = HEIGHTS[k]
                                   /\ res[name][k] = fixed[i]

\* a block whose trailing rows are missing: rows first, absent rows after
C2_Witness ==
    /\ seasons_data # None /\ seasons_data[1] # None
    /\ \E name \in DOMAIN seasons_data[1] :
          /\ seasons_data[1][name][7] # [j \in 1..(2 * expected_cols) |-> None]
          /\ seasons_data[1][name][8] = [j \in 1..(2 * expected_cols) |-> None]
          /\ seasons_data[1][name][9] = [j \in 1..(2 * expected_cols) |-> None]

\* C3: every row parse_data_page emits has 2*expected_cols slots: it is a
\* fully-absent row, or a data row after decimal recovery cut to its leading
\* 2*expected_cols values or followed by None in the missing slots; a page
\* fails only for want of a file or of boundary rows, never for a row length.
C3_RowLength ==
    seasons_data # None =>
        LET N         == 2 * expected_cols
            res       == seasons_data[1]
            Fixed(vs) == LET rep == IF Len(vs) > N THEN try_merge_split_decimals(vs, N)
                                    ELSE vs
                         IN  [j \in 1..N |-> IF j <= Len(rep) THEN Some(rep[j]) ELSE None]
            emitted   == {Fixed(data_rows[i].values) : i \in 1..Len(data_rows)}
                             \cup {[j \in 1..N |-> None]}
        IN  IF res = None
            THEN \/ page = None
                 \/ /\ Len(data_rows) < 45
                    /\ \A i \in 1..Len(data_rows) : data_rows[i].height # 10
            ELSE \A name \in DOMAIN res : \A k \in 1..Len(res[name]) :
                    /\ Len(res[name][k]) = N
                    /\ res[name][k] \in emitted

\* a page with a row cut at the end and a row filled up with None
C3_Witness ==
    /\ seasons_data # None /\ seasons_data[1] # None
    /\ \E name \in DOMAIN seasons_data[1] : \E k \in 1..9 :
          /\ seasons_data[1][name][k][1] # None
          /\ seasons_data[1][name][k][2 * expected_cols] = None
    /\ \E i \in 1..Len(data_rows) :
          Len(try_merge_split_decimals(data_rows[i].values, 2 * expected_cols))
              > 2 * expected_cols

\* C10: with a boundary count other than five and at least 45 rows, the
\* result holds all five seasons, season s being rows 9*s .. 9*s+8 (counted
\* from 0) with no absent row, and rows from position 45 on are dropped.
C10_FixedPartition ==
    (seasons_data # None /\ page # None) =>
        LET rows == data_rows
            N    == 2 * expected_cols
            res  == seasons_data[1]
            b    == Cardinality({i \in 1..Len(rows) : rows[i].height = 10})
        IN  (b # 5 /\ Len(rows) >= 45) =>
                /\ res # None
                /\ DOMAIN res = {"winter", "spring", "summer", "autumn", "annual"}
                /\ \A s \in 0..4 : \A k \in 0..8 :
                       LET entry ==
                               res[<<"winter", "spring", "summer", "autumn", "annual">>[s + 1]][k + 1]
                       IN  /\ entry = fix_row(rows[9 * s + k + 1].values, N)
                           /\ entry # [j \in 1..N |-> None]

\* four boundary rows among 45 rows: the fixed partition gives five seasons
C10_Witness ==
    /\ seasons_data # None /\ page # None /\ seasons_data[1] # None
    /\ Cardinality({i \in 1..Len(data_rows) :
                       data_rows[i].height = 10}) = 4
    /\ Len(data_rows) = 45

\* C12: with exactly five boundary rows b_1 < ... < b_5, all five seasons
\* are returned and season s is the rows from b_s up to, not including,
\* min(b_{s+1}, b_s + 9) (for the last season min(end of rows, b_5 + 9)), in
\* page order, then fully-absent rows up to nine; a row before b_1 or more
\* than eight places after its boundary is in no block.
C12_BoundaryBlocks ==
    (seasons_data # None /\ page # None
        /\ Cardinality({i \in 1..Len(data_rows) : data_rows[i].height = 10}) = 5) =>
        LET rows   == data_rows
            N      == 2 * expected_cols
            B      == {i \in 1..Len(rows) : rows[i].height = 10}
            b(s)   == CHOOSE i \in B : Cardinality({j \in B : j < i}) = s - 1
            end(s) == IF s < 5 THEN Min(b(s + 1), b(s) + 9)
                      ELSE Min(Len(rows) + 1, b(5) + 9)
            res    == seasons_data[1]
            fixed  == [i \in 1..Len(rows) |-> fix_row(rows[i].values, N)]
            placed == UNION {b(s)..(end(s) - 1) : s \in 1..5}
        IN  /\ res # None
            /\ DOMAIN res = Range(SEASONS)
            /\ \A s \in 1..5 : \A k \in 1..9 :
                   res[SEASONS[s]][k] =
                       IF b(s) + k - 1 < end(s) THEN fixed[b(s) + k - 1]
                       ELSE [j \in 1..N |-> None]
            /\ \A i \in 1..Len(rows) :
                   (i < b(1) \/ \E s \in 1..5 : i >= b(s) + 9 /\ (s = 5 \/ i < b(s + 1)))
                       => /\ i \notin placed
                          /\ \A s \in 1..5 : \A k \in 1..9 :
                                 res[SEASONS[s]][k] # fixed[i]

\* five boundary rows, the first block of ten rows: its tenth row is left out
C12_Witness ==
    /\ seasons_data # None /\ seasons_data[1] # None
    /\ Cardinality({i \in 1..Len(data_rows) : data_rows[i].height = 10}) = 5
    /\ \E i \in 1..Len(data_rows) :
          /\ data_rows[i].height = 10
          /\ i + 9 <= Len(data_rows)
          /\ \A j \in (i + 1)..(i + 9) : data_rows[j].height # 10
          /\ seasons_data[1]["winter"][1] = fix_row(data_rows[i].values, 2 * expected_cols)

\* C13: parse_data_page gives no result exactly when the page file is
\* missing, or its rows hold no boundary row and number fewer than 45; every
\* other page gives at least one season; a line the classifier accepts and
\* the extraction rejects is passed over: the result is that of the page
\* without such lines.
C13_NoResult ==
    seasons_data # None =>
        LET res  == seasons_data[1]
            B    == {i \in 1..Len(data_rows) : data_rows[i].height = 10}
            kept == IF page = None THEN <<>>
                    ELSE SelectSeq(page[1], LAMBDA t : ~MalformedLine[t])
        IN  /\ res = None <=> (page = None \/ (B = {} /\ Len(data_rows) < 45))
            /\ (page # None /\ (Cardinality(B) = 5 \/ Len(data_rows) >= 45 \/ B # {}))
                   => (res # None /\ DOMAIN res # {})
            /\ page # None =>
                   /\ extract_rows(kept) = data_rows
                   /\ parse_data_page(Some(kept), expected_cols) = res

\* a page with a line accepted and not extracted, fewer than 45 rows and a
\* boundary count other than five, that gives a result all the same
C13_Witness ==
    /\ seasons_data # None /\ seasons_data[1] # None
    /\ page # None
    /\ \E i \in 1..Len(page[1]) : MalformedLine[page[1][i]]
    /\ Len(data_rows) < 45
    /\ Cardinality({i \in 1..Len(data_rows) : data_rows[i].height = 10}) \in 1..4

\* C14: for an intact page (45 rows, the heights running through the nine
\* levels five times, every row of 2*expected_cols values) the blocks cut at
\* the boundary rows and the blocks of the fixed nine-row partition are the
\* same, decimal recovery and the cut-or-fill step change no value, and row k
\* of block s is row 9*s + k of the page (s, k counted from 0).
C14_IntactPage ==
    (/\ seasons_data # None
     /\ Len(data_rows) = 45
     /\ \A i \in 1..Len(data_rows) :
            /\ data_rows[i].height = HEIGHTS[((i - 1) % 9) + 1]
            /\ Len(data_rows[i].values) = 2 * expected_cols) =>
        LET rows  == data_rows
            N     == 2 * expected_cols
            res   == seasons_data[1]
            fixed == [i \in 1..5 |-> (i - 1) * 9 + 1]
        IN  /\ res # None
            /\ DOMAIN res = Range(SEASONS)
            /\ boundaries(rows, 1) = fixed
            /\ \A s \in 1..5 :
                   /\ season_block(rows, boundaries(rows, 1), s, N) = res[SEASONS[s]]
                   /\ season_block(rows, fixed, s, N) = res[SEASONS[s]]
                   /\ \A k \in 1..9 : \A j \in 1..N :
                          res[SEASONS[s]][k][j] = Some(rows[9 * (s - 1) + k].values[j])
            /\ \A i \in 1..45 :
                   /\ try_merge_split_decimals(rows[i].values, N) = rows[i].values
                   /\ fix_row(rows[i].values, N) = [j \in 1..N |-> Some(rows[i].values[j])]

\* an intact page, one of its rows with a line-number prefix and one with its
\* highest level read as 5000, parsed
C14_Witness ==
    /\ seasons_data # None /\ seasons_data[1] # None
    /\ \E i \in 1..Len(page[1]) : strip_line_prefix(strip(page[1][i])) # page[1][i]
    /\ Len(data_rows) = 45
    /\ \A i \in 1..Len(data_rows) :
          /\ data_rows[i].height = HEIGHTS[((i - 1) % 9) + 1]
          /\ Len(data_rows[i].values) = 2 * expected_cols
    /\ seasons_data[1]["annual"][9] =
           [j \in 1..(2 * expected_cols) |-> Some(data_rows[45].values[j])]

\* C18 as claimed: the season keys of a result are the first n names of
\* winter, spring, summer, autumn, annual, n >= 1; in the salvage case (b
\* boundary rows, b # 5, b >= 1, fewer than 45 rows) n = min(b, 5), season j
\* starts at the j-th boundary row, and the boundary rows after the fifth are
\* ignored: the fifth block runs for up to nine rows whatever follows.
C18_LateBoundariesIgnored ==
    (seasons_data # None /\ seasons_data[1] # None) =>
        LET rows   == data_rows
            N      == 2 * expected_cols
            res    == seasons_data[1]
            B      == {i \in 1..Len(rows) : rows[i].height = 10}
            n      == Min(Cardinality(B), 5)
            b(j)   == CHOOSE i \in B : Cardinality({m \in B : m < i}) = j - 1
            end(j) == IF j < n THEN Min(b(j + 1), b(j) + 9)
                      ELSE Min(Len(rows) + 1, b(j) + 9)
            fixed  == [i \in 1..Len(rows) |-> fix_row(rows[i].values, N)]
        IN  /\ \E m \in 1..5 : DOMAIN res = {SEASONS[j] : j \in 1..m}
            /\ (Cardinality(B) # 5 /\ B # {} /\ Len(rows) < 45) =>
                   /\ DOMAIN res = {SEASONS[j] : j \in 1..n}
                   /\ \A j \in 1..n : \A k \in 1..9 :
                          res[SEASONS[j]][k] =
                              IF b(j) + k - 1 < end(j) THEN fixed[b(j) + k - 1]
                              ELSE [c \in 1..N |-> None]

\* C18 as amended: the same, but the boundary rows after the fifth only
\* start no season: the sixth boundary row, if there is one, ends the fifth
\* block as every boundary row ends the block before it; annual is a key
\* only when there are five starts.
C18_OrdinalSeasons ==
    (seasons_data # None /\ seasons_data[1] # None) =>
        LET rows   == data_rows
            N      == 2 * expected_cols
            res    == seasons_data[1]
            B      == {i \in 1..Len(rows) : rows[i].height = 10}
            n      == Min(Cardinality(B), 5)
            b(j)   == CHOOSE i \in B : Cardinality({m \in B : m < i}) = j - 1
            end(j) == IF j < Cardinality(B) THEN Min(b(j + 1), b(j) + 9)
                      ELSE Min(Len(rows) + 1, b(j) + 9)
            fixed  == [i \in 1..Len(rows) |-> fix_row(rows[i].values, N)]
        IN  /\ \E m \in 1..5 : DOMAIN res = {SEASONS[j] : j \in 1..m}
            /\ "annual" \in DOMAIN res =>
                   (Cardinality(B) >= 5 \/ Len(rows) >= 45)
            /\ (Cardinality(B) # 5 /\ B # {} /\ Len(rows) < 45) =>
                   /\ DOMAIN res = {SEASONS[j] : j \in 1..n}
                   /\ \A j \in 1..n : \A k \in 1..9 :
                          res[SEASONS[j]][k] =
                              IF b(j) + k - 1 < end(j) THEN fixed[b(j) + k - 1]
                              ELSE [c \in 1..N |-> None]

\* a page of fewer than 45 rows and more than five boundary rows: five
\* seasons, and the annual block stops short at the sixth boundary row
C18_Witness ==
    /\ seasons_data # None /\ seasons_data[1] # None
    /\ Len(data_rows) < 45
    /\ Cardinality({i \in 1..Len(data_rows) : data_rows[i].height = 10}) > 5
    /\ DOMAIN seasons_data[1] = Range(SEASONS)
    /\ seasons_data[1]["annual"][7] # [c \in 1..(2 * expected_cols) |-> None]
    /\ seasons_data[1]["annual"][8] = [c \in 1..(2 * expected_cols) |-> None]

\* ------------------------------------------------------ build_data_module
\* the page files a batch can find on disk, as the runs they hold
FileRuns(kind) ==
    CASE kind = "intact"   -> <<"full", "full", "full", "full", "full">>
      [] kind = "no_rows"  -> <<"headless">>
      [] kind = "salvage4" -> <<"full", "full", "full", "full">>
      [] kind = "salvage3" -> <<"stub", "full", "cut">>
      [] kind = "fallback" -> <<"repeat", "full", "full", "full", "headless">>
      [] kind = "ragged"   -> <<"ragged", "gap", "stub", "full", "full">>

OddFiles == {"missing", "no_rows", "salvage4", "salvage3", "fallback", "ragged"}

FileKinds == OddFiles \cup {"intact"}

File(kind, cols) == IF kind = "missing" THEN None ELSE Some(PageText(FileRuns(kind), 1, cols))

GridCols == {Len(LOCATION_GRIDS[g]) : g \in 1..Len(LOCATION_GRIDS)}

\* the data rows of every file that exists (evaluated once)
RowsOfFile ==
    [kind \in FileKinds \ {"missing"}, cols \in GridCols |-> extract_rows(File(kind, cols)[1])]

\* parse_data_page for every file and column count of a batch (evaluated once)
ParsedFile ==
    [kind \in FileKinds, cols \in GridCols |-> parse_data_page(File(kind, cols), cols)]

\* the list that holds zero where a slot of the row is None
height_data_zero_fill(season_rows, loc_idx) ==
    [k \in 1..Len(season_rows) |->
        LET row_values == season_rows[k]
            val1_idx   == loc_idx * 2 + 1
            val2_idx   == loc_idx * 2 + 2
            val1       == IF val1_idx <= Len(row_values) /\ row_values[val1_idx] # None
                          THEN row_values[val1_idx] ELSE Some(0)
            val2       == IF val2_idx <= Len(row_values) /\ row_values[val2_idx] # None
                          THEN row_values[val2_idx] ELSE Some(0)
        IN  <<val1, val2>>]

\* the list height_data of one location: a pair per row of the season
height_data(season_rows, loc_idx) ==
    [k \in 1..Len(season_rows) |->
        LET row_values == season_rows[k]
            val1_idx   == loc_idx * 2 + 1
            val2_idx   == loc_idx * 2 + 2
            val1       == IF val1_idx <= Len(row_values) /\ row_values[val1_idx] # None
                          THEN row_values[val1_idx] ELSE None
            val2       == IF val2_idx <= Len(row_values) /\ row_values[val2_idx] # None
                          THEN row_values[val2_idx] ELSE None
        IN  <<val1, val2>>]

\* the merge that keeps only the locations of the page at hand
merge_page_replace(param_data, seasons, locations) ==
    [loc_key \in Range(locations) |->
        [season_name \in DOMAIN seasons |->
            height_data(seasons[season_name],
                        (CHOOSE i \in 1..Len(locations) : locations[i] = loc_key) - 1)]]

\* all_data[param_name] after the nested loops over seasons and locations
merge_page(param_data, seasons, locations) ==
    LET written == Range(locations)
        \* the last column that writes loc_key
        col(loc_key) == CHOOSE i \in 1..Len(locations) :
                            /\ locations[i] = loc_key
                            /\ \A j \in 1..Len(locations) : locations[j] = loc_key => j <= i
        old(loc_key) == IF loc_key \in DOMAIN param_data THEN param_data[loc_key] ELSE <<>>
    IN  [loc_key \in DOMAIN param_data \cup written |->
            IF loc_key \in written
            THEN [season_name \in DOMAIN old(loc_key) \cup DOMAIN seasons |->
                     IF season_name \in DOMAIN seasons
                     THEN height_data(seasons[season_name], col(loc_key) - 1)
                     ELSE old(loc_key)[season_name]]
            ELSE param_data[loc_key]]

\* all_data after one pass of the loop over pages that parsed its page
store_page(data, param_name, seasons, locations) ==
    LET param_data == IF param_name \in DOMAIN data THEN data[param_name] ELSE <<>>
    IN  [name \in DOMAIN data \cup {param_name} |->
            IF name = param_name THEN merge_page(param_data, seasons, locations)
            ELSE data[name]]

OddPagesRead == Cardinality({p \in DOMAIN disk : disk[p] \in OddFiles})

InitBuild ==
    /\ pc = "loop"
    /\ page_num = 9
    /\ all_data = <<>>
    /\ warnings_count = 0
    /\ disk = <<>>
    /\ line = <<>> /\ accepted = None /\ extracted = None
    /\ values = <<>> /\ expected_count = 0 /\ merged = None /\ remerged = None
    /\ page = None /\ expected_cols = 0 /\ data_rows = <<>> /\ seasons_data = None

\* what the page file of the given kind writes, on its own, for the
\* locations of longitude group g (1-based); nothing when its parse failed
Contribution ==
    [kind \in FileKinds, g \in 1..Len(LOCATION_GRIDS) |->
        IF ParsedFile[kind, Len(LOCATION_GRIDS[g])] = None THEN <<>>
        ELSE merge_page(<<>>, ParsedFile[kind, Len(LOCATION_GRIDS[g])], LOCATION_GRIDS[g])]

\* for the page file of the given kind read for longitude group g: per
\* season and column i, the slots 2*i - 1 and 2*i (1-based) of each row
ColumnPairs ==
    [kind \in FileKinds, g \in 1..Len(LOCATION_GRIDS) |->
        LET seasons == ParsedFile[kind, Len(LOCATION_GRIDS[g])]
        IN  IF seasons = None THEN <<>>
            ELSE [season_name \in DOMAIN seasons |->
                     [i \in 1..Len(LOCATION_GRIDS[g]) |->
                         [k \in 1..Len(seasons[season_name]) |->
                             <<seasons[season_name][k][2 * i - 1],
                               seasons[season_name][k][2 * i]>>]]]]

\* the pass that gives up what it has gathered when a page fails
ProcessPageAborting ==
    /\ pc = "loop"
    /\ page_num < 117 /\ page_num <= LastPage
    /\ \E kind \in FileKinds :
        /\ kind \in OddFiles => OddPagesRead < MaxOddPages
        /\ LET table_index == page_num - 9
               param_index == table_index \div 12
               lon_index   == table_index % 12
               param_name  == PARAMETERS[param_index + 1]
               locations   == LOCATION_GRIDS[lon_index + 1]
               num_cols    == Len(locations)
               seasons     == ParsedFile[kind, num_cols]
           IN  /\ disk' = [p \in DOMAIN disk \cup {page_num} |->
                              IF p = page_num THEN kind ELSE disk[p]]
               /\ IF seasons = None
                  THEN /\ warnings_count' = warnings_count + 1
                       /\ all_data' = <<>>
                  ELSE /\ warnings_count' = warnings_count
                       /\ all_data' = store_page(all_data, param_name, seasons, locations)
    /\ page_num' = page_num + 1
    /\ UNCHANGED <<pc, lineVars, mergeVars, pageVars>>

\* one pass of `for page_num in range(9, 117)` that finds a file of one of
\* the given kinds
ProcessPageFrom(kinds) ==
    /\ pc = "loop"
    /\ page_num < 117 /\ page_num <= LastPage
    /\ \E kind \in kinds :
        /\ kind \in OddFiles => OddPagesRead < MaxOddPages
        /\ LET table_index == page_num - 9
               param_index == table_index \div 12
               lon_index   == table_index % 12
               param_name  == PARAMETERS[param_index + 1]
               locations   == LOCATION_GRIDS[lon_index + 1]
               num_cols    == Len(locations)
               seasons     == ParsedFile[kind, num_cols]
           IN  /\ disk' = [p \in DOMAIN disk \cup {page_num} |->
                              IF p = page_num THEN kind ELSE disk[p]]
               /\ IF seasons = None
                  THEN /\ warnings_count' = warnings_count + 1
                       /\ all_data' = all_data
                  ELSE /\ warnings_count' = warnings_count
                       /\ all_data' = store_page(all_data, param_name, seasons, locations)
    /\ page_num' = page_num + 1
    /\ UNCHANGED <<pc, lineVars, mergeVars, pageVars>>

\* one pass of the loop, whatever file it finds
ProcessPage == ProcessPageFrom(FileKinds)

\* the return that does not wait for the loop to run out
ReturnEarly ==
    /\ pc = "loop"
    /\ pc' = "done"
    /\ UNCHANGED <<page_num, all_data, warnings_count, disk, lineVars, mergeVars, pageVars>>

\* `return all_data, warnings_count`
Return ==
    /\ pc = "loop"
    /\ ~(page_num < 117 /\ page_num <= LastPage)
    /\ pc' = "done"
    /\ UNCHANGED <<page_num, all_data, warnings_count, disk, lineVars, mergeVars, pageVars>>

NextBuild == ProcessPage \/ Return

SpecBuild == InitBuild /\ [][NextBuild]_vars

\* the batch over pages that are missing or intact; a pass of the loop reads
\* one finite file and ends, and nothing else runs
BatchKinds == {"missing", "intact"}

ProcessBatchPage == ProcessPageFrom(BatchKinds)

NextBatch == ProcessBatchPage \/ Return

SpecBatch == InitBuild /\ [][NextBatch]_vars /\ WF_vars(NextBatch)

\* C1: every value sequence of the dataset has exactly nine entries, each a
\* pair of two slots, each slot a number or None, whatever the pages held.
C1_NinePairs ==
    LET Slots == {None} \cup [{1} -> Int]
    IN  \A p \in DOMAIN all_data : \A l \in DOMAIN all_data[p] :
            \A s \in DOMAIN all_data[p][l] :
                all_data[p][l][s] \in [1..9 -> Slots \X Slots]

\* the batch returned after a page with short, long and missing rows
C1_Witness ==
    /\ pc = "done"
    /\ \E q \in DOMAIN disk : disk[q] = "ragged"
    /\ \E p \in DOMAIN all_data : \E l \in DOMAIN all_data[p] :
          \E s \in DOMAIN all_data[p][l] : \E k \in 1..9 :
              /\ all_data[p][l][s][k][1] # None
              /\ all_data[p][l][s][k][2] = None

C5_FourOrFive ==
    pc = "done" =>
        \A p \in DOMAIN all_data : \A l \in DOMAIN all_data[p] :
            DOMAIN all_data[p][l] \in
                { {"winter", "spring", "summer", "autumn", "annual"},
                  {"winter", "spring", "summer", "autumn"} }

\* C5 as amended: the season keys of a location are a non-empty prefix of
\* winter, spring, summer, autumn, annual: all five when its page held
\* exactly five boundary rows or at least 45 rows, else the first min(b, 5)
\* for a page of b >= 1 boundary rows.
C5_SeasonPrefix ==
    /\ \A p \in DOMAIN all_data : \A l \in DOMAIN all_data[p] :
          \E n \in 1..5 :
              DOMAIN all_data[p][l] =
                  {<<"winter", "spring", "summer", "autumn", "annual">>[i] : i \in 1..n}
    /\ \A q \in DOMAIN disk :
          LET g    == (q - 9) % 12
              cols == Len(LOCATION_GRIDS[g + 1])
              name == PARAMETERS[((q - 9) \div 12) + 1]
          IN  ParsedFile[disk[q], cols] # None =>
                  LET rows == RowsOfFile[disk[q], cols]
                      b    == Cardinality({i \in 1..Len(rows) : rows[i].height = 10})
                      n    == IF b = 5 \/ Len(rows) >= 45 THEN 5 ELSE Min(b, 5)
                  IN  /\ n >= 1
                      /\ \A l \in Range(LOCATION_GRIDS[g + 1]) :
                             DOMAIN all_data[name][l] =
                                 {<<"winter", "spring", "summer", "autumn", "annual">>[i] :
                                     i \in 1..n}

\* a page of three boundary rows and fewer than 45 rows leaves three seasons
C5_Witness ==
    /\ pc = "done"
    /\ \E p \in DOMAIN all_data : \E l \in DOMAIN all_data[p] :
          DOMAIN all_data[p][l] = {"winter", "spring", "summer"}

\* C11: a page whose parse gives no result leaves the dataset as it was,
\* adds exactly one to the failure count and lets the loop go on; the count
\* is the number of pages read without a result, and what every other page
\* contributed is what that page writes on its own, whichever pages failed.
C11_PageLocalFailure ==
    /\ [](/\ warnings_count =
                Cardinality({q \in DOMAIN disk :
                    ParsedFile[disk[q], Len(LOCATION_GRIDS[((q - 9) % 12) + 1])] = None})
          /\ \A q \in DOMAIN disk :
                LET g    == ((q - 9) % 12) + 1
                    name == PARAMETERS[((q - 9) \div 12) + 1]
                IN  ParsedFile[disk[q], Len(LOCATION_GRIDS[g])] # None =>
                        /\ name \in DOMAIN all_data
                        /\ \A l \in Range(LOCATION_GRIDS[g]) :
                               /\ l \in DOMAIN all_data[name]
                               /\ all_data[name][l] = Contribution[disk[q], g][l]
          /\ pc = "done" => DOMAIN disk = 9..Min(116, LastPage))
    /\ [][(/\ page_num' = page_num + 1
           /\ ParsedFile[disk'[page_num],
                         Len(LOCATION_GRIDS[((page_num - 9) % 12) + 1])] = None)
          => /\ all_data' = all_data
             /\ warnings_count' = warnings_count + 1
             /\ pc' = "loop"
             /\ DOMAIN disk' = DOMAIN disk \cup {page_num}]_vars

\* a batch returned with one page failed and the pages after it stored
C11_Witness ==
    /\ pc = "done"
    /\ warnings_count = 1
    /\ \E q \in DOMAIN disk :
          /\ disk[q] \in {"missing", "no_rows"}
          /\ q > 9
          /\ q < Min(116, LastPage)
          /\ "temperature" \in DOMAIN all_data
          /\ DOMAIN all_data["temperature"] =
                 UNION {Range(LOCATION_GRIDS[g]) : g \in (1..12) \ {((q - 9) % 12) + 1}}

\* C15: for every page that parsed, every season of it, every location at
\* column i of its longitude group and every row k, the pair stored at k is
\* (slot 2*i, slot 2*i+1) of row k of the season (i from 0): a None slot
\* stays None and is never zero, a number is copied as it is, and either
\* slot can be None on its own.
C15_ColumnPairs ==
    \A q \in DOMAIN disk :
        LET g       == ((q - 9) % 12) + 1
            name    == PARAMETERS[((q - 9) \div 12) + 1]
            seasons == ParsedFile[disk[q], Len(LOCATION_GRIDS[g])]
        IN  seasons # None =>
                /\ name \in DOMAIN all_data
                /\ \A i \in 1..Len(LOCATION_GRIDS[g]) :
                       /\ LOCATION_GRIDS[g][i] \in DOMAIN all_data[name]
                       /\ DOMAIN all_data[name][LOCATION_GRIDS[g][i]] = DOMAIN seasons
                       /\ \A season_name \in DOMAIN seasons :
                              all_data[name][LOCATION_GRIDS[g][i]][season_name]
                                  = ColumnPairs[disk[q], g][season_name][i]

\* a batch that stored, for one location, a pair of two numbers, a pair of a
\* number and None, and a pair of None and None
C15_Witness ==
    /\ pc = "done"
    /\ \E p \in DOMAIN all_data : \E l \in DOMAIN all_data[p] :
          /\ \E s \in DOMAIN all_data[p][l] : \E k \in 1..9 :
                 all_data[p][l][s][k][1] # None /\ all_data[p][l][s][k][2] # None
          /\ \E s \in DOMAIN all_data[p][l] : \E k \in 1..9 :
                 all_data[p][l][s][k][1] # None /\ all_data[p][l][s][k][2] = None
          /\ \E s \in DOMAIN all_data[p][l] : \E k \in 1..9 :
                 all_data[p][l][s][k] = <<None, None>>

\* the pairs of a parameter index and a longitude-group index of the pages
PageCoordinates ==
    [p \in 9..116 |-> <<(p - 9) \div 12, (p - 9) % 12>>]

\* every pair of one of 9 parameters and one of 12 groups belongs to exactly
\* one of the 108 pages
PageMapOneToOne ==
    /\ Cardinality(DOMAIN PageCoordinates) = 108
    /\ \A p \in DOMAIN PageCoordinates : PageCoordinates[p] \in (0..8) \X (0..11)
    /\ \A c \in (0..8) \X (0..11) :
           Cardinality({p \in DOMAIN PageCoordinates : PageCoordinates[p] = c}) = 1

\* C16: the pages are read one at a time in increasing order from 9, each
\* once, and whichever pages fail the batch ends with the return of the
\* dataset and the count after the last page; page p writes only under
\* parameter (p - 9) div 12 and the locations of longitude group
\* (p - 9) mod 12, and that mapping is one-to-one from the pages 9..116 onto
\* the 9 x 12 pairs of a parameter and a longitude group.
C16_SequentialBatch ==
    /\ [](/\ DOMAIN disk = 9..(page_num - 1)
          /\ PageMapOneToOne
          /\ pc = "done" => page_num = Min(116, LastPage) + 1)
    /\ [][\/ /\ pc = "loop" /\ pc' = "done"
             /\ page_num' = page_num
             /\ all_data' = all_data /\ warnings_count' = warnings_count
          \/ /\ pc = "loop" /\ pc' = "loop"
             /\ page_num' = page_num + 1
             /\ LET name == PARAMETERS[PageCoordinates[page_num][1] + 1]
                    grid == Range(LOCATION_GRIDS[PageCoordinates[page_num][2] + 1])
                    old  == IF name \in DOMAIN all_data THEN DOMAIN all_data[name] ELSE {}
                IN  \/ /\ all_data' = all_data
                       /\ warnings_count' = warnings_count + 1
                    \/ /\ warnings_count' = warnings_count
                       /\ DOMAIN all_data' = DOMAIN all_data \cup {name}
                       /\ \A other \in DOMAIN all_data \ {name} :
                              all_data'[other] = all_data[other]
                       /\ DOMAIN all_data'[name] = old \cup grid
                       /\ \A l \in old \ grid : all_data'[name][l] = all_data[name][l]]_vars
    /\ <>(pc = "done" /\ DOMAIN disk = 9..Min(116, LastPage))

\* a batch returned after a failed page, with entries under two parameters
C16_Witness ==
    /\ pc = "done"
    /\ warnings_count > 0
    /\ page_num = Min(116, LastPage) + 1
    /\ Cardinality(DOMAIN all_data) = 2
    /\ \E q \in DOMAIN disk : q < Min(116, LastPage) /\ disk[q] = "missing"

\* no location twice in a group, none in two groups
GridsDisjoint ==
    /\ \A g \in 1..Len(LOCATION_GRIDS) :
           Cardinality(Range(LOCATION_GRIDS[g])) = Len(LOCATION_GRIDS[g])
    /\ \A g, h \in 1..Len(LOCATION_GRIDS) :
           g # h => Range(LOCATION_GRIDS[g]) \cap Range(LOCATION_GRIDS[h]) = {}

\* C17: no key (parameter, location, season) is written twice in a batch:
\* the location lists hold no location twice and share none, every pass of
\* the loop that stores a page writes locations its parameter did not hold
\* yet, and whatever was stored before the pass is there unchanged after it.
C17_NoRewrite ==
    /\ [](GridsDisjoint /\ PageMapOneToOne)
    /\ [][page_num' = page_num + 1 =>
            LET name == PARAMETERS[((page_num - 9) \div 12) + 1]
                grid == Range(LOCATION_GRIDS[((page_num - 9) % 12) + 1])
                old  == IF name \in DOMAIN all_data THEN DOMAIN all_data[name] ELSE {}
            IN  /\ all_data' # all_data => old \cap grid = {}
                /\ \A p \in DOMAIN all_data :
                       /\ p \in DOMAIN all_data'
                       /\ \A l \in DOMAIN all_data[p] :
                              /\ l \in DOMAIN all_data'[p]
                              /\ all_data'[p][l] = all_data[p][l]]_vars

\* a batch returned with every page stored, one of them by the fixed
\* partition: all locations of the first parameter, each written once
C17_Witness ==
    /\ pc = "done"
    /\ warnings_count = 0
    /\ \E q \in DOMAIN disk : disk[q] = "fallback"
    /\ "temperature" \in DOMAIN all_data
    /\ Cardinality(DOMAIN all_data["temperature"]) =
           Len(LOCATION_GRIDS[1]) + Len(LOCATION_GRIDS[2]) + Len(LOCATION_GRIDS[3])
           + Len(LOCATION_GRIDS[4]) + Len(LOCATION_GRIDS[5]) + Len(LOCATION_GRIDS[6])
           + Len(LOCATION_GRIDS[7]) + Len(LOCATION_GRIDS[8]) + Len(LOCATION_GRIDS[9])
           + Len(LOCATION_GRIDS[10]) + Len(LOCATION_GRIDS[11]) + Len(LOCATION_GRIDS[12])

====
